---- MODULE Spec2Model ----
(***************************************************************************)
(* Order service (cooli88/order): the four Connect RPC handlers            *)
(* (CreateOrder, GetOrder, ListOrders, CheckOrderOwner), the entity to     *)
(* wire conversion, and the two OrderStore implementations they run        *)
(* against: PostgresStore (the orders table) and MockOrderStore.           *)
(*                                                                         *)
(* Conventions of the model                                                *)
(*   - a Go pointer or error that may be nil is a sequence of length 0     *)
(*     (nil) or 1 (the value);                                             *)
(*   - a Go error is its Unwrap chain: a sequence of [ident, msg], where   *)
(*     ident is the identity of the error value (what errors.Is compares)  *)
(*     and msg its text; the nil error is the empty chain;                 *)
(*   - a float64 is a value on a grid of 1/1000: sign, whole part and      *)
(*     thousandths, or NaN;                                                *)
(*   - a time.Time is an instant t in clock ticks and a zone offset off.   *)
(***************************************************************************)
EXTENDS Integers, Sequences, FiniteSets

VARIABLES
    impl,      \* which OrderStore NewServer was given: "postgres" or "mock"
    server,    \* the Server NewServer returned: its four handlers, each with its store
    mock,      \* MockOrderStore: which of CreateFunc/GetFunc/ListFunc are set
    db,        \* the rows of the orders table
    acked,     \* history: the orders a CreateOrder against the table answered with success,
               \* each with the clock's reading (at) and its place among them (n)
    faulted,   \* history: some store call met a driver fault
    last,      \* the most recent handler invocation: request, store calls, outcome
    inflight,  \* the invocations running concurrently, each at its own point of Handle
    main       \* the process: where func main is, and what it has done so far

vars == <<impl, server, mock, db, acked, faulted, last, inflight, main>>

----------------------------------------------------------------------------
(* Bounds of the model *)

\* time.Now() returns one of the instants 0..MaxClock (in ticks)
MaxClock == 1
\* clock ticks per microsecond (the resolution of a TIMESTAMP column)
TicksPerMicro == 2
\* microseconds per second (the resolution of an RFC3339 string), scaled down
MicrosPerSecond == 2
\* longest sequence a MockOrderStore ListFunc returns
MaxList == 2
\* the number of invocations that run concurrently
MaxInflight == 2
\* the offset from UTC of the process's local zone, in seconds
LocalZone == 1

----------------------------------------------------------------------------
(* Optional values *)

Nil == <<>>

Some(x) == <<x>>

----------------------------------------------------------------------------
(* float64 *)

Fin(neg, whole, mills) == [cls |-> "fin", neg |-> neg, whole |-> whole, mills |-> mills]

NaN == [cls |-> "nan", neg |-> FALSE, whole |-> 0, mills |-> 0]

\* Go's a <= 0 on float64: false for NaN, true for -0
LeqZero(a) == a.cls = "fin" /\ (a.neg \/ (a.whole = 0 /\ a.mills = 0))

\* Go's a > 0
GtZero(a) == a.cls = "fin" /\ ~a.neg /\ (a.whole > 0 \/ a.mills > 0)

\* Go's a == b on float64: NaN equals nothing, -0 equals 0
FloatEq(a, b) ==
    /\ a.cls = "fin"
    /\ b.cls = "fin"
    /\ a.whole = b.whole
    /\ a.mills = b.mills
    /\ (a.neg = b.neg \/ (a.whole = 0 /\ a.mills = 0))

----------------------------------------------------------------------------
(* Errors *)

ErrorsNew(ident, msg) == <<[ident |-> ident, msg |-> msg]>>

\* fmt.Errorf("...: %w", err)
Wrap(msg, err) == <<[ident |-> "fmt.wrapError", msg |-> msg]>> \o err

\* errors.Is(err, target) for a target made by errors.New: some error of the
\* chain is the target value itself
ErrorsIs(err, target) == \E i \in 1..Len(err) : err[i].ident = target[1].ident

\* var ErrOrderNotFound = errors.New("order not found")
ErrOrderNotFound == ErrorsNew("store.ErrOrderNotFound", "order not found")

\* database/sql's ErrNoRows
SqlErrNoRows == ErrorsNew("sql.ErrNoRows", "sql: no rows in result set")

\* what the driver returns when the connection or the context fails
DriverFault == ErrorsNew("driver", "context canceled")

\* the driver's errors for a statement the table rejects
PqUniqueViolation == ErrorsNew("pq.Error", "duplicate key value violates unique constraint")

PqNumericOverflow == ErrorsNew("pq.Error", "numeric field overflow")

CodeInvalidArgument == "invalid_argument"

CodeNotFound == "not_found"

CodePermissionDenied == "permission_denied"

CodeInternal == "internal"

\* connect.NewError(code, underlying)
NewError(code, underlying) == [code |-> code, cause |-> underlying]

\* (*connect.Error).Message(): the text of the underlying error
Message(e) == IF e.cause = Nil THEN "" ELSE e.cause[1].msg

----------------------------------------------------------------------------
(* time.Time *)

TicksPerSecond == TicksPerMicro * MicrosPerSecond

\* time.Now(): the wall clock's reading, in the process's local zone
TimeNow(t, zone) == [t |-> t, off |-> zone]

\* Time.UTC(): the same instant, in UTC
UTC(tm) == [t |-> tm.t, off |-> 0]

\* Time.Format(time.RFC3339): the wall time of tm's own zone, cut to whole
\* seconds, and the zone's offset ("Z" when the offset is 0)
FormatRFC3339(tm) == [wall |-> (tm.t \div TicksPerSecond) + tm.off, zone |-> tm.off]

----------------------------------------------------------------------------
(* entity.Order and its wire form *)

OrderStatusNew == "NEW"

OrderStatusInProgress == "IN_PROGRESS"

OrderStatusFinished == "FINISHED"

\* func entityToProto(e *entity.Order) *orderv1.Order
entityToProto_SwapIds(e) ==
    [Id        |-> e.UserID,
     UserId    |-> e.ID,
     Item      |-> e.Item,
     Amount    |-> e.Amount,
     Status    |-> e.Status,
     CreatedAt |-> FormatRFC3339(e.CreatedAt)]

entityToProto(e) ==
    [Id        |-> e.ID,
     UserId    |-> e.UserID,
     Item      |-> e.Item,
     Amount    |-> e.Amount,
     Status    |-> e.Status,
     CreatedAt |-> FormatRFC3339(e.CreatedAt)]

----------------------------------------------------------------------------
(* Requests and responses.  A request is the union of the four request     *)
(* messages; the fields an operation's message does not have stay at their *)
(* zero value.  A response likewise: Order is set by CreateOrder and       *)
(* GetOrder, Orders by ListOrders, and CheckOrderOwnerResponse is empty.   *)

Zero == Fin(FALSE, 0, 0)

CreateOrderRequest(userId, item, amount) ==
    [Id |-> "", OrderId |-> "", UserId |-> userId, Item |-> item, Amount |-> amount]

GetOrderRequest(id) ==
    [Id |-> id, OrderId |-> "", UserId |-> "", Item |-> "", Amount |-> Zero]

ListOrdersRequest ==
    [Id |-> "", OrderId |-> "", UserId |-> "", Item |-> "", Amount |-> Zero]

CheckOrderOwnerRequest(orderId, userId) ==
    [Id |-> "", OrderId |-> orderId, UserId |-> userId, Item |-> "", Amount |-> Zero]

\* &orderv1.CreateOrderResponse{Order: o}, &orderv1.GetOrderResponse{Order: o}
OrderResponse(o) == [Order |-> Some(o), Orders |-> <<>>]

\* &orderv1.ListOrdersResponse{Orders: os}
ListOrdersResponse(os) == [Order |-> Nil, Orders |-> os]

\* &orderv1.CheckOrderOwnerResponse{}
CheckOrderOwnerResponse == [Order |-> Nil, Orders |-> <<>>]

\* what Handle returns: (response, error), or a panic
Return(resp, err) == [resp |-> resp, err |-> err, panicked |-> FALSE]

\* a nil pointer dereference inside Handle
Panic == [resp |-> Nil, err |-> Nil, panicked |-> TRUE]

----------------------------------------------------------------------------
(* The handlers' validation *)

\* func (h *createOrderHandler) validate(req)
createOrderValidate_ZeroAllowed(req) ==
    IF req.UserId = "" THEN Some(NewError(CodeInvalidArgument, Nil))
    ELSE IF req.Item = "" THEN Some(NewError(CodeInvalidArgument, Nil))
    ELSE IF LeqZero(req.Amount) /\ ~FloatEq(req.Amount, Zero)
         THEN Some(NewError(CodeInvalidArgument, Nil))
    ELSE Nil

createOrderValidate(req) ==
    IF req.UserId = "" THEN Some(NewError(CodeInvalidArgument, Nil))
    ELSE IF req.Item = "" THEN Some(NewError(CodeInvalidArgument, Nil))
    ELSE IF LeqZero(req.Amount) THEN Some(NewError(CodeInvalidArgument, Nil))
    ELSE Nil

\* func (h *getOrderHandler) validate(req)
getOrderValidate_None(req) == Nil

getOrderValidate(req) ==
    IF req.Id = "" THEN Some(NewError(CodeInvalidArgument, Nil)) ELSE Nil

\* func (h *listOrdersHandler) validate(_)
listOrdersValidate(req) == Nil

\* func (h *checkOrderOwnerHandler) validate(req)
checkOrderOwnerValidate_OrderIdOnly(req) ==
    IF req.OrderId = "" THEN Some(NewError(CodeInvalidArgument, Nil)) ELSE Nil

checkOrderOwnerValidate(req) ==
    IF req.OrderId = "" THEN Some(NewError(CodeInvalidArgument, Nil))
    ELSE IF req.UserId = "" THEN Some(NewError(CodeInvalidArgument, Nil))
    ELSE Nil

----------------------------------------------------------------------------
(* PostgresStore: the orders table *)

\* amount DECIMAL(10, 2) NOT NULL: ten digits, two of them after the point
DecimalPrecision == 10
DecimalScale == 2

RECURSIVE Pow10(_)
Pow10(n) == IF n = 0 THEN 1 ELSE 10 * Pow10(n - 1)

\* the float's decimal digits cast to DECIMAL(10, 2): rounded to the scale,
\* half away from zero; ok is FALSE when the result needs more than ten digits
ToDecimal(a) ==
    IF a.cls = "nan" THEN [ok |-> TRUE, val |-> NaN]
    ELSE LET unit  == Pow10(3 - DecimalScale)
             c     == (a.mills + (unit \div 2)) \div unit
             carry == c = Pow10(DecimalScale)
             whole == a.whole + (IF carry THEN 1 ELSE 0)
             frac  == IF carry THEN 0 ELSE c
             zero  == whole = 0 /\ frac = 0
         IN  [ok  |-> whole < Pow10(DecimalPrecision - DecimalScale),
              val |-> Fin(a.neg /\ ~zero, whole, frac * unit)]

\* created_at TIMESTAMP NOT NULL: the wall time of the value's own zone, the
\* zone dropped, rounded to the microsecond
ToTimestamp(tm) ==
    LET wall == tm.t + tm.off * TicksPerSecond
    IN  ((2 * wall + TicksPerMicro) \div (2 * TicksPerMicro)) * TicksPerMicro

\* the row the INSERT's named parameters make of an entity
EntityToRow(e) ==
    [id         |-> e.ID,
     user_id    |-> e.UserID,
     item       |-> e.Item,
     amount     |-> ToDecimal(e.Amount).val,
     status     |-> e.Status,
     created_at |-> ToTimestamp(e.CreatedAt)]

\* the entity sqlx scans a row into (a TIMESTAMP reads back with offset 0)
RowToEntity(r) ==
    [ID        |-> r.id,
     UserID    |-> r.user_id,
     Item      |-> r.item,
     Amount    |-> r.amount,
     Status    |-> r.status,
     CreatedAt |-> [t |-> r.created_at, off |-> 0]]

\* the outcomes of the driver for one statement: it runs and answers
\* ("none"), it fails before the statement ran ("fail"), or the statement ran
\* and its answer was lost, the context being cancelled or the connection
\* dropped meanwhile ("lost_ack")
DriverOutcomes == {"none", "fail", "lost_ack"}

\* the error of the INSERT, were it to run on rows
InsertError_NoPrimaryKey(rows, e) ==
    IF ~ToDecimal(e.Amount).ok THEN PqNumericOverflow ELSE Nil

InsertError(rows, e) ==
    IF ~ToDecimal(e.Amount).ok THEN PqNumericOverflow
    ELSE IF \E r \in rows : r.id = e.ID THEN PqUniqueViolation
    ELSE Nil

\* func (s *PostgresStore) Create(ctx, order) error
PostgresStoreCreate_Upsert(rows, order, outcome) ==
    IF outcome = "fail" THEN [err |-> DriverFault, rows |-> rows]
    ELSE IF ~ToDecimal(order.Amount).ok THEN [err |-> PqNumericOverflow, rows |-> rows]
    ELSE [err  |-> IF outcome = "lost_ack" THEN DriverFault ELSE Nil,
          rows |-> {r \in rows : r.id # order.ID} \union {EntityToRow(order)}]

PostgresStoreCreate(rows, order, outcome) ==
    IF outcome = "fail" THEN [err |-> DriverFault, rows |-> rows]
    ELSE IF InsertError(rows, order) # Nil
         THEN [err |-> InsertError(rows, order), rows |-> rows]
    ELSE [err  |-> IF outcome = "lost_ack" THEN DriverFault ELSE Nil,
          rows |-> rows \union {EntityToRow(order)}]

\* func (s *PostgresStore) Get(ctx, id) (*entity.Order, error)
PostgresStoreGet_RawNoRows(rows, id, outcome) ==
    LET found == {r \in rows : r.id = id}
        err   == IF outcome # "none" THEN DriverFault
                 ELSE IF found = {} THEN SqlErrNoRows
                 ELSE Nil
    IN  IF err # Nil THEN [order |-> Nil, err |-> err]
        ELSE [order |-> Some(RowToEntity(CHOOSE r \in found : TRUE)), err |-> Nil]

PostgresStoreGet(rows, id, outcome) ==
    LET found == {r \in rows : r.id = id}
        err   == IF outcome # "none" THEN DriverFault
                 ELSE IF found = {} THEN SqlErrNoRows
                 ELSE Nil
    IN  IF ErrorsIs(err, SqlErrNoRows) THEN [order |-> Nil, err |-> ErrOrderNotFound]
        ELSE IF err # Nil THEN [order |-> Nil, err |-> err]
        ELSE [order |-> Some(RowToEntity(CHOOSE r \in found : TRUE)), err |-> Nil]

\* a Go slice: nil, or its elements
NilSlice == [isNil |-> TRUE, elems |-> <<>>]

Slice(elems) == [isNil |-> FALSE, elems |-> elems]

\* the orders in which SELECT ... ORDER BY created_at DESC may return rows:
\* every arrangement with created_at non-increasing (rows of equal
\* created_at come in any order)
OrderByCreatedAtDesc_Asc(rows) ==
    {s \in [1..Cardinality(rows) -> rows] :
        /\ \A i, j \in DOMAIN s : i < j => s[i] # s[j]
        /\ \A i, j \in DOMAIN s : i < j => s[i].created_at <= s[j].created_at}

OrderByCreatedAtDesc(rows) ==
    {s \in [1..Cardinality(rows) -> rows] :
        /\ \A i, j \in DOMAIN s : i < j => s[i] # s[j]
        /\ \A i, j \in DOMAIN s : i < j => s[i].created_at >= s[j].created_at}

\* func (s *PostgresStore) List(ctx) ([]*entity.Order, error): the answers
\* it may give
PostgresStoreList_Unordered(rows, outcome) ==
    IF outcome # "none" THEN {[orders |-> NilSlice, err |-> DriverFault]}
    ELSE IF rows = {} THEN {[orders |-> NilSlice, err |-> Nil]}
    ELSE {[orders |-> Slice([i \in DOMAIN s |-> RowToEntity(s[i])]), err |-> Nil] :
             s \in {q \in [1..Cardinality(rows) -> rows] :
                       \A i, j \in DOMAIN q : i < j => q[i] # q[j]}}

PostgresStoreList(rows, outcome) ==
    IF outcome # "none" THEN {[orders |-> NilSlice, err |-> DriverFault]}
    ELSE IF rows = {} THEN {[orders |-> NilSlice, err |-> Nil]}
    ELSE {[orders |-> Slice([i \in DOMAIN s |-> RowToEntity(s[i])]), err |-> Nil] :
             s \in OrderByCreatedAtDesc(rows)}

----------------------------------------------------------------------------
(* MockOrderStore: each method answers with its Func when that is set, and *)
(* with nil values otherwise.  A Func is any closure: its answers are      *)
(* drawn from the sample values below.                                     *)

SampleOrders ==
    {[ID |-> "id1", UserID |-> "u1", Item |-> "Widget", Amount |-> Fin(FALSE, 99, 990),
      Status |-> OrderStatusNew, CreatedAt |-> [t |-> 5, off |-> 0]],
     [ID |-> "id2", UserID |-> "u2", Item |-> "Gadget", Amount |-> Fin(FALSE, 0, 5),
      Status |-> OrderStatusInProgress, CreatedAt |-> [t |-> 1, off |-> 1]],
     [ID |-> "id3", UserID |-> "u1", Item |-> "Widget", Amount |-> Fin(FALSE, 99, 990),
      Status |-> OrderStatusFinished, CreatedAt |-> [t |-> 5, off |-> 0]]}

\* the errors a Func returns: the sentinel, an error wrapping it under
\* another text, another error with the sentinel's text, and two failures
SampleErrors ==
    {ErrOrderNotFound,
     Wrap("lookup failed", ErrOrderNotFound),
     ErrorsNew("errors.New@test", "order not found"),
     ErrorsNew("errors.New@test", "database connection failed")}

Slices(S) ==
    {NilSlice} \union {Slice(s) : s \in UNION {[1..n -> S] : n \in 0..MaxList}}

\* func (m *MockOrderStore) Create(ctx, order) error: the errors it may return
MockOrderStoreCreate(m, order) ==
    IF m.CreateFunc THEN SampleErrors \union {Nil} ELSE {Nil}

\* func (m *MockOrderStore) Get(ctx, id) (*entity.Order, error)
MockOrderStoreGet(m, id) ==
    IF m.GetFunc
    THEN {[order |-> o, err |-> e] :
             o \in {Nil} \union {Some(x) : x \in SampleOrders},
             e \in SampleErrors \union {Nil}}
    ELSE {[order |-> Nil, err |-> Nil]}

\* func (m *MockOrderStore) List(ctx) ([]*entity.Order, error)
MockOrderStoreList(m) ==
    IF m.ListFunc
    THEN {[orders |-> os, err |-> e] :
             os \in Slices(SampleOrders), e \in SampleErrors \union {Nil}}
    ELSE {[orders |-> NilSlice, err |-> Nil]}

----------------------------------------------------------------------------
(* The handlers, after validation *)

\* createOrderHandler.Handle: order := &entity.Order{...}
NewOrder_KeepZone(req, id, now) ==
    [ID        |-> id,
     UserID    |-> req.UserId,
     Item      |-> req.Item,
     Amount    |-> req.Amount,
     Status    |-> OrderStatusNew,
     CreatedAt |-> now]

NewOrder_InProgress(req, id, now) ==
    [ID        |-> id,
     UserID    |-> req.UserId,
     Item      |-> req.Item,
     Amount    |-> req.Amount,
     Status    |-> OrderStatusInProgress,
     CreatedAt |-> UTC(now)]

NewOrder(req, id, now) ==
    [ID        |-> id,
     UserID    |-> req.UserId,
     Item      |-> req.Item,
     Amount    |-> req.Amount,
     Status    |-> OrderStatusNew,
     CreatedAt |-> UTC(now)]

\* createOrderHandler.Handle: what it returns once store.Create returned err
createOrderReturn_NotFound(order, err) ==
    IF err # Nil
    THEN IF ErrorsIs(err, ErrOrderNotFound)
         THEN Return(Nil, Some(NewError(CodeNotFound, err)))
         ELSE Return(Nil, Some(NewError(CodeInternal, err)))
    ELSE Return(Some(OrderResponse(entityToProto(order))), Nil)

createOrderReturn(order, err) ==
    IF err # Nil
    THEN Return(Nil, Some(NewError(CodeInternal, err)))
    ELSE Return(Some(OrderResponse(entityToProto(order))), Nil)

\* getOrderHandler.Handle: what it returns once store.Get returned
\* (order, err); entityToProto dereferences order
getOrderReturn_ByText(order, err) ==
    IF err # Nil
    THEN IF err[1].msg = ErrOrderNotFound[1].msg
         THEN Return(Nil, Some(NewError(CodeNotFound, err)))
         ELSE Return(Nil, Some(NewError(CodeInternal, err)))
    ELSE IF order = Nil THEN Panic
    ELSE Return(Some(OrderResponse(entityToProto(order[1]))), Nil)

getOrderReturn(order, err) ==
    IF err # Nil
    THEN IF ErrorsIs(err, ErrOrderNotFound)
         THEN Return(Nil, Some(NewError(CodeNotFound, err)))
         ELSE Return(Nil, Some(NewError(CodeInternal, err)))
    ELSE IF order = Nil THEN Panic
    ELSE Return(Some(OrderResponse(entityToProto(order[1]))), Nil)

\* listOrdersHandler.Handle: what it returns once store.List returned
\* (orders, err)
listOrdersReturn_Reversed(orders, err) ==
    IF err # Nil
    THEN Return(Nil, Some(NewError(CodeInternal, err)))
    ELSE LET n == Len(orders.elems)
         IN  Return(Some(ListOrdersResponse(
                 [i \in 1..n |-> entityToProto(orders.elems[n + 1 - i])])), Nil)

listOrdersReturn(orders, err) ==
    IF err # Nil
    THEN Return(Nil, Some(NewError(CodeInternal, err)))
    ELSE Return(Some(ListOrdersResponse(
             [i \in 1..Len(orders.elems) |-> entityToProto(orders.elems[i])])), Nil)

\* checkOrderOwnerHandler.Handle: what it returns once store.Get returned
\* (order, err); order.UserID dereferences order
checkOrderOwnerReturn_LeakItem(req, order, err) ==
    IF err # Nil
    THEN IF ErrorsIs(err, ErrOrderNotFound)
         THEN Return(Nil, Some(NewError(CodeNotFound, err)))
         ELSE Return(Nil, Some(NewError(CodeInternal, err)))
    ELSE IF order = Nil THEN Panic
    ELSE IF order[1].UserID # req.UserId
    THEN Return(Nil, Some(NewError(CodePermissionDenied,
             ErrorsNew("errors.New@checkOrderOwner", order[1].Item))))
    ELSE Return(Some(CheckOrderOwnerResponse), Nil)

checkOrderOwnerReturn_OwnerFirst(req, order, err) ==
    IF order # Nil /\ order[1].UserID # req.UserId
    THEN Return(Nil, Some(NewError(CodePermissionDenied,
             ErrorsNew("errors.New@checkOrderOwner", "order does not belong to user"))))
    ELSE IF err # Nil
    THEN IF ErrorsIs(err, ErrOrderNotFound)
         THEN Return(Nil, Some(NewError(CodeNotFound, err)))
         ELSE Return(Nil, Some(NewError(CodeInternal, err)))
    ELSE IF order = Nil THEN Panic
    ELSE Return(Some(CheckOrderOwnerResponse), Nil)

checkOrderOwnerReturn_AnyUser(req, order, err) ==
    IF err # Nil
    THEN IF ErrorsIs(err, ErrOrderNotFound)
         THEN Return(Nil, Some(NewError(CodeNotFound, err)))
         ELSE Return(Nil, Some(NewError(CodeInternal, err)))
    ELSE IF order = Nil THEN Panic
    ELSE Return(Some(CheckOrderOwnerResponse), Nil)

checkOrderOwnerReturn(req, order, err) ==
    IF err # Nil
    THEN IF ErrorsIs(err, ErrOrderNotFound)
         THEN Return(Nil, Some(NewError(CodeNotFound, err)))
         ELSE Return(Nil, Some(NewError(CodeInternal, err)))
    ELSE IF order = Nil THEN Panic
    ELSE IF order[1].UserID # req.UserId
    THEN Return(Nil, Some(NewError(CodePermissionDenied,
             ErrorsNew("errors.New@checkOrderOwner", "order does not belong to user"))))
    ELSE Return(Some(CheckOrderOwnerResponse), Nil)

----------------------------------------------------------------------------
(* Inputs *)

\* the values uuid.New().String() returns (36 characters each in the code)
UUIDs == {"id1", "id2"}

\* the user ids of CheckOrderOwner requests, and those of CreateOrder requests
UserIds == {"", "u1", "u2"}

Owners == {"", "u1"}

Items == {"", "Widget"}

\* 0, -10, 0.004, 99.99, 100000000 and NaN
Amounts ==
    {Zero, Fin(TRUE, 10, 0), Fin(FALSE, 0, 4), Fin(FALSE, 99, 990),
     Fin(FALSE, 100000000, 0), NaN}

Instants == 0..MaxClock

CreateOrderRequests ==
    {CreateOrderRequest(u, i, a) : u \in Owners, i \in Items, a \in Amounts}

GetOrderRequests == {GetOrderRequest(id) : id \in UUIDs \union {""}}

CheckOrderOwnerRequests ==
    {CheckOrderOwnerRequest(id, u) : id \in UUIDs \union {""}, u \in UserIds}

----------------------------------------------------------------------------
(* The store behind the OrderStore interface the handlers hold *)

\* one call of a store method, as the handler made it (on which store, with
\* which arguments) and as it returned
StoreCall(on, fn, id, order, order2, orders, err) ==
    [on |-> on, fn |-> fn, id |-> id, order |-> order,
     ret |-> [order |-> order2, orders |-> orders, err |-> err]]

\* h.store.Create(ctx, order): the error returned, the table afterwards and
\* whether the driver met a fault
StoreCreate(store, order) ==
    IF store = "postgres"
    THEN {LET r == PostgresStoreCreate(db, order, f)
          IN  [err |-> r.err, rows |-> r.rows, fault |-> f # "none"] :
             f \in DriverOutcomes}
    ELSE {[err |-> e, rows |-> db, fault |-> FALSE] : e \in MockOrderStoreCreate(mock, order)}

\* h.store.Get(ctx, id)
StoreGet(store, id) ==
    IF store = "postgres"
    THEN {LET r == PostgresStoreGet(db, id, f)
          IN  [order |-> r.order, err |-> r.err, fault |-> f # "none"] :
             f \in {"none", "fail"}}
    ELSE {[order |-> r.order, err |-> r.err, fault |-> FALSE] : r \in MockOrderStoreGet(mock, id)}

\* h.store.List(ctx)
StoreList(store) ==
    IF store = "postgres"
    THEN UNION {{[orders |-> r.orders, err |-> r.err, fault |-> f # "none"] :
                    r \in PostgresStoreList(db, f)} : f \in {"none", "fail"}}
    ELSE {[orders |-> r.orders, err |-> r.err, fault |-> FALSE] : r \in MockOrderStoreList(mock)}

----------------------------------------------------------------------------
(* Server: one handler per operation, each holding the store it was built  *)
(* with, and one method per operation that forwards to its handler         *)

\* func NewServer(store store.OrderStore) *Server
NewServer_MockForGet(store) ==
    [createOrderHandler     |-> [store |-> store],
     getOrderHandler        |-> [store |-> "mock"],
     listOrdersHandler      |-> [store |-> store],
     checkOrderOwnerHandler |-> [store |-> store]]

NewServer(store) ==
    [createOrderHandler     |-> [store |-> store],
     getOrderHandler        |-> [store |-> store],
     listOrdersHandler      |-> [store |-> store],
     checkOrderOwnerHandler |-> [store |-> store]]

\* func (s *Server) CreateOrder(ctx, req): the handler it calls and the
\* request it hands over
ServerCreateOrder(s, req) == [handler |-> s.createOrderHandler, req |-> req]

\* func (s *Server) GetOrder(ctx, req)
ServerGetOrder(s, req) == [handler |-> s.getOrderHandler, req |-> req]

\* func (s *Server) ListOrders(ctx, req)
ServerListOrders(s, req) == [handler |-> s.listOrdersHandler, req |-> req]

\* func (s *Server) CheckOrderOwner(ctx, req)
ServerCheckOrderOwner(s, req) == [handler |-> s.checkOrderOwnerHandler, req |-> req]

----------------------------------------------------------------------------
(* The state machine: one action per RPC, each the whole of Server.X and   *)
(* the handler's Handle it forwards to                                     *)

\* the record of an invocation: req is the request the caller sent, clock
\* the reading of time.Now(), if taken;
\* repeat tells that the invocation before it was the same call
Handled(op, req, clock, calls, out) ==
    last' = [op |-> op, req |-> req, clock |-> clock, calls |-> calls,
             resp |-> out.resp, err |-> out.err, panicked |-> out.panicked,
             repeat |-> (last.op = op /\ last.req = req)]

\* no func main: the tests build the Server and call it themselves
NotStarted ==
    [pc |-> "none", open |-> "", ping |-> "", schema |-> "",
     deferred |-> FALSE, listened |-> FALSE, closed |-> FALSE]

\* before any invocation
NoInvocation ==
    [op |-> "", req |-> ListOrdersRequest, clock |-> Nil, calls |-> <<>>,
     resp |-> Nil, err |-> Nil, panicked |-> FALSE, repeat |-> FALSE]

Init ==
    /\ impl \in {"postgres", "mock"}
    /\ server = NewServer(impl)
    /\ mock \in [CreateFunc : BOOLEAN, GetFunc : BOOLEAN, ListFunc : BOOLEAN]
    /\ impl = "postgres" => mock = [CreateFunc |-> FALSE, GetFunc |-> FALSE, ListFunc |-> FALSE]
    /\ db = {}
    /\ acked = {}
    /\ faulted = FALSE
    /\ last = NoInvocation
    /\ inflight = <<>>
    /\ main = NotStarted

\* Server.CreateOrder -> createOrderHandler.Handle
CreateOrder ==
    \E sent \in CreateOrderRequests :
        LET h       == ServerCreateOrder(server, sent).handler
            req     == ServerCreateOrder(server, sent).req
            invalid == createOrderValidate(req)
        IN  IF invalid # Nil
            THEN /\ Handled("CreateOrder", sent, Nil, <<>>, Return(Nil, invalid))
                 /\ UNCHANGED <<inflight, main, impl, server, mock, db, acked, faulted>>
            ELSE \E id \in UUIDs, t \in Instants :
                 LET now   == TimeNow(t, LocalZone)
                     order == NewOrder(req, id, now)
                 IN  \E ans \in StoreCreate(h.store, order) :
                     /\ db' = ans.rows
                     /\ faulted' = (faulted \/ ans.fault)
                     /\ acked' = IF h.store = "postgres" /\ ans.err = Nil
                                 THEN acked \union {[id |-> id, req |-> req]}
                                 ELSE acked
                     /\ Handled("CreateOrder", sent, Some(now),
                                <<StoreCall(h.store, "Create", "", Some(order), Nil, NilSlice, ans.err)>>,
                                createOrderReturn(order, ans.err))
                     /\ UNCHANGED <<inflight, main, impl, server, mock>>

\* Server.GetOrder -> getOrderHandler.Handle
GetOrder ==
    \E sent \in GetOrderRequests :
        LET h       == ServerGetOrder(server, sent).handler
            req     == ServerGetOrder(server, sent).req
            invalid == getOrderValidate(req)
        IN  IF invalid # Nil
            THEN /\ Handled("GetOrder", sent, Nil, <<>>, Return(Nil, invalid))
                 /\ UNCHANGED <<inflight, main, impl, server, mock, db, acked, faulted>>
            ELSE \E ans \in StoreGet(h.store, req.Id) :
                 /\ faulted' = (faulted \/ ans.fault)
                 /\ Handled("GetOrder", sent, Nil,
                            <<StoreCall(h.store, "Get", req.Id, Nil, ans.order, NilSlice, ans.err)>>,
                            getOrderReturn(ans.order, ans.err))
                 /\ UNCHANGED <<inflight, main, impl, server, mock, db, acked>>

\* Server.ListOrders -> listOrdersHandler.Handle
ListOrders ==
    LET sent    == ListOrdersRequest
        h       == ServerListOrders(server, sent).handler
        req     == ServerListOrders(server, sent).req
        invalid == listOrdersValidate(req)
    IN  IF invalid # Nil
        THEN /\ Handled("ListOrders", sent, Nil, <<>>, Return(Nil, invalid))
             /\ UNCHANGED <<inflight, main, impl, server, mock, db, acked, faulted>>
        ELSE \E ans \in StoreList(h.store) :
             /\ faulted' = (faulted \/ ans.fault)
             /\ Handled("ListOrders", sent, Nil,
                        <<StoreCall(h.store, "List", "", Nil, Nil, ans.orders, ans.err)>>,
                        listOrdersReturn(ans.orders, ans.err))
             /\ UNCHANGED <<inflight, main, impl, server, mock, db, acked>>

\* Server.CheckOrderOwner -> checkOrderOwnerHandler.Handle
CheckOrderOwner ==
    \E sent \in CheckOrderOwnerRequests :
        LET h       == ServerCheckOrderOwner(server, sent).handler
            req     == ServerCheckOrderOwner(server, sent).req
            invalid == checkOrderOwnerValidate(req)
        IN  IF invalid # Nil
            THEN /\ Handled("CheckOrderOwner", sent, Nil, <<>>, Return(Nil, invalid))
                 /\ UNCHANGED <<inflight, main, impl, server, mock, db, acked, faulted>>
            ELSE \E ans \in StoreGet(h.store, req.OrderId) :
                 /\ faulted' = (faulted \/ ans.fault)
                 /\ Handled("CheckOrderOwner", sent, Nil,
                            <<StoreCall(h.store, "Get", req.OrderId, Nil, ans.order, NilSlice, ans.err)>>,
                            checkOrderOwnerReturn(req, ans.order, ans.err))
                 /\ UNCHANGED <<inflight, main, impl, server, mock, db, acked>>

Next == CreateOrder \/ GetOrder \/ ListOrders \/ CheckOrderOwner

Spec == Init /\ [][Next]_vars

----------------------------------------------------------------------------
(* Concurrent invocations.  net/http runs every request in a goroutine of  *)
(* its own; an invocation goes through Handle in three steps: validation   *)
(* and the building of the call's arguments, the store call (one statement *)
(* of the database, which runs it atomically), and the return.  Its        *)
(* request context may be cancelled while it waits for the store call.     *)
(* Contexts are named by the number of the invocation they belong to; 0 is *)
(* context.Background().                                                   *)

\* an invocation that has not started
Idle ==
    [pc |-> "idle", op |-> "", req |-> ListOrdersRequest, cancelled |-> FALSE,
     order |-> Nil, passed |-> 0, call |-> <<>>, out |-> Return(Nil, Nil)]

\* the requests of the concurrent invocations
ConcurrentRequests ==
    {[op |-> "CreateOrder", req |-> CreateOrderRequest("u1", "Widget", Fin(FALSE, 99, 990))],
     [op |-> "CreateOrder", req |-> CreateOrderRequest("", "Widget", Fin(FALSE, 99, 990))],
     [op |-> "GetOrder", req |-> GetOrderRequest("id1")],
     [op |-> "ListOrders", req |-> ListOrdersRequest],
     [op |-> "CheckOrderOwner", req |-> CheckOrderOwnerRequest("id1", "u2")]}

\* h.validate(req.Msg) of the operation's handler
Validate(op, req) ==
    IF op = "CreateOrder" THEN createOrderValidate(req)
    ELSE IF op = "GetOrder" THEN getOrderValidate(req)
    ELSE IF op = "ListOrders" THEN listOrdersValidate(req)
    ELSE checkOrderOwnerValidate(req)

\* the handler the Server method of the operation forwards to
HandlerOf(s, op, req) ==
    IF op = "CreateOrder" THEN ServerCreateOrder(s, req).handler
    ELSE IF op = "GetOrder" THEN ServerGetOrder(s, req).handler
    ELSE IF op = "ListOrders" THEN ServerListOrders(s, req).handler
    ELSE ServerCheckOrderOwner(s, req).handler

\* the context Handle hands to its store call: the one it was called with
HandleContext_Background(i) == 0

HandleContext(i) == i

\* the order createOrderHandler.Handle hands to store.Create: the one it
\* built, a local variable of the invocation
createOrderArg_SharedField(slots, i) ==
    LET built == {j \in DOMAIN slots : slots[j].order # Nil}
    IN  slots[CHOOSE j \in built : \A k \in built : k <= j].order

createOrderArg(slots, i) == slots[i].order

\* Handle up to its store call: validation, and for CreateOrder the order
Invoke(i) ==
    /\ inflight[i].pc = "idle"
    /\ i > 1 => inflight[i - 1].pc # "idle"
    /\ \E r \in ConcurrentRequests :
          LET invalid == Validate(r.op, r.req)
              begun   == [Idle EXCEPT !.op = r.op, !.req = r.req]
          IN  IF invalid # Nil
              THEN inflight' = [inflight EXCEPT ![i] =
                       [begun EXCEPT !.pc = "done", !.out = Return(Nil, invalid)]]
              ELSE IF r.op = "CreateOrder"
              THEN \E id \in UUIDs, t \in Instants :
                       inflight' = [inflight EXCEPT ![i] =
                           [begun EXCEPT !.pc = "built",
                                         !.order = Some(NewOrder(r.req, id, TimeNow(t, LocalZone)))]]
              ELSE inflight' = [inflight EXCEPT ![i] = [begun EXCEPT !.pc = "built"]]
    /\ UNCHANGED <<impl, server, mock, db, acked, faulted, last, main>>

\* the caller cancels the request context
Cancel(i) ==
    /\ inflight[i].pc = "built"
    /\ ~inflight[i].cancelled
    /\ inflight' = [inflight EXCEPT ![i].cancelled = TRUE]
    /\ UNCHANGED <<impl, server, mock, db, acked, faulted, last, main>>

\* the store call of the invocation, on PostgresStore: a context that is
\* cancelled makes the driver return its error without running the statement
Call(i) ==
    /\ inflight[i].pc = "built"
    /\ LET me     == inflight[i]
           h      == HandlerOf(server, me.op, me.req)
           ctx    == HandleContext(i)
           dead   == ctx # 0 /\ inflight[ctx].cancelled
           writes == IF dead THEN {"fail"} ELSE DriverOutcomes
           reads  == IF dead THEN {"fail"} ELSE {"none", "fail"}
       IN  /\ h.store = "postgres"
           /\ IF me.op = "CreateOrder"
              THEN \E f \in writes :
                     LET order == createOrderArg(inflight, i)
                         r     == PostgresStoreCreate(db, order[1], f)
                     IN  /\ db' = r.rows
                         /\ inflight' = [inflight EXCEPT ![i] =
                                [me EXCEPT !.pc = "answered", !.passed = ctx,
                                    !.call = <<StoreCall(h.store, "Create", "", order,
                                                         Nil, NilSlice, r.err)>>]]
              ELSE IF me.op = "ListOrders"
              THEN \E f \in reads : \E r \in PostgresStoreList(db, f) :
                     /\ db' = db
                     /\ inflight' = [inflight EXCEPT ![i] =
                            [me EXCEPT !.pc = "answered", !.passed = ctx,
                                !.call = <<StoreCall(h.store, "List", "", Nil,
                                                     Nil, r.orders, r.err)>>]]
              ELSE \E f \in reads :
                     LET id == IF me.op = "GetOrder" THEN me.req.Id ELSE me.req.OrderId
                         r  == PostgresStoreGet(db, id, f)
                     IN  /\ db' = db
                         /\ inflight' = [inflight EXCEPT ![i] =
                                [me EXCEPT !.pc = "answered", !.passed = ctx,
                                    !.call = <<StoreCall(h.store, "Get", id, Nil,
                                                         r.order, NilSlice, r.err)>>]]
    /\ UNCHANGED <<impl, server, mock, acked, faulted, last, main>>

\* Handle after its store call: the response or the error
ReturnFromHandle(i) ==
    /\ inflight[i].pc = "answered"
    /\ LET me == inflight[i]
           c  == me.call[1]
           out == IF me.op = "CreateOrder" THEN createOrderReturn(me.order[1], c.ret.err)
                  ELSE IF me.op = "GetOrder" THEN getOrderReturn(c.ret.order, c.ret.err)
                  ELSE IF me.op = "ListOrders" THEN listOrdersReturn(c.ret.orders, c.ret.err)
                  ELSE checkOrderOwnerReturn(me.req, c.ret.order, c.ret.err)
       IN  inflight' = [inflight EXCEPT ![i] = [me EXCEPT !.pc = "done", !.out = out]]
    /\ UNCHANGED <<impl, server, mock, db, acked, faulted, last, main>>

InitConcurrent ==
    /\ impl = "postgres"
    /\ server = NewServer(impl)
    /\ mock = [CreateFunc |-> FALSE, GetFunc |-> FALSE, ListFunc |-> FALSE]
    /\ db = {}
    /\ acked = {}
    /\ faulted = FALSE
    /\ last = NoInvocation
    /\ inflight = [i \in 1..MaxInflight |-> Idle]
    /\ main = NotStarted

NextConcurrent ==
    \/ \E i \in 1..MaxInflight : Invoke(i)
    \/ \E i \in 1..MaxInflight : Cancel(i)
    \/ \E i \in 1..MaxInflight : Call(i)
    \/ \E i \in 1..MaxInflight : ReturnFromHandle(i)

SpecConcurrent == InitConcurrent /\ [][NextConcurrent]_vars

----------------------------------------------------------------------------
(* Vocabulary of the properties *)

\* the error code of an invocation's outcome, "" when it returned no error
CodeOf(inv) == IF inv.err = Nil THEN "" ELSE inv.err[1].code

\* the invocation failed with this code and a nil response
FailedWith(inv, code) ==
    /\ ~inv.panicked
    /\ inv.resp = Nil
    /\ inv.err # Nil
    /\ inv.err[1].code = code

\* a CreateOrder request that passes the validation the specification states
ValidCreate(req) == req.UserId # "" /\ req.Item # "" /\ GtZero(req.Amount)

\* the table holds a row of this id
Persisted(rows, id) == \E r \in rows : r.id = id

----------------------------------------------------------------------------
(* C1: a CreateOrder request with an empty user_id, an empty item or an    *)
(* amount <= 0 is answered with InvalidArgument and a nil response, makes  *)
(* no store call and leaves the persisted orders as they were.             *)

C1_InvalidCreateRejected ==
    [][(/\ last'.op = "CreateOrder"
        /\ \/ last'.req.UserId = ""
           \/ last'.req.Item = ""
           \/ LeqZero(last'.req.Amount))
       => /\ FailedWith(last', CodeInvalidArgument)
          /\ last'.calls = <<>>
          /\ db' = db]_vars

\* a zero amount, the other fields valid, was rejected while the table held
\* an order
C1_Witness ==
    /\ last.op = "CreateOrder"
    /\ last.req.UserId # ""
    /\ last.req.Item # ""
    /\ last.req.Amount = Zero
    /\ FailedWith(last, CodeInvalidArgument)
    /\ db # {}

----------------------------------------------------------------------------
(* C2: a CreateOrder request with non-empty user_id and item and an        *)
(* amount > 0, whose store Create returned no error, made exactly one      *)
(* store call, Create, with an order of non-empty id, the request's        *)
(* user_id, item and amount, status NEW and created_at the reading of the  *)
(* clock in UTC; the response is the wire form of that very order.         *)

C2_CreateSuccess ==
    (/\ last.op = "CreateOrder"
     /\ ValidCreate(last.req)
     /\ \A i \in DOMAIN last.calls : last.calls[i].ret.err = Nil)
    => /\ Len(last.calls) = 1
       /\ last.calls[1].fn = "Create"
       /\ last.calls[1].order # Nil
       /\ last.clock # Nil
       /\ LET o == last.calls[1].order[1]
          IN  /\ o.ID # ""
              /\ o.UserID = last.req.UserId
              /\ o.Item = last.req.Item
              /\ FloatEq(o.Amount, last.req.Amount)
              /\ o.Status = "NEW"
              /\ o.CreatedAt = [t |-> last.clock[1].t, off |-> 0]
              /\ ~last.panicked
              /\ last.err = Nil
              /\ last.resp = Some(OrderResponse(entityToProto(o)))
              /\ last.resp[1].Order[1].Id = o.ID
              /\ FloatEq(last.resp[1].Order[1].Amount, last.req.Amount)

\* an order of amount 0.004 was created against the table at instant 1
C2_Witness ==
    /\ impl = "postgres"
    /\ last.op = "CreateOrder"
    /\ last.req.Amount = Fin(FALSE, 0, 4)
    /\ last.resp # Nil
    /\ last.clock = Some(TimeNow(1, LocalZone))
    /\ Persisted(db, last.resp[1].Order[1].Id)

----------------------------------------------------------------------------
(* C3: round trip.  Once CreateOrder(user_id, item, amount), amount > 0,   *)
(* has answered with id X against the orders table, every later            *)
(* GetOrder(X) that the store answers succeeds and returns id X, the same  *)
(* user_id, item and amount, and status NEW.                               *)
(* The code breaks it: the amount comes back rounded to two decimals.      *)

\* the store call of the invocation was answered (the driver met no fault)
Answered(inv) == \A i \in DOMAIN inv.calls : inv.calls[i].ret.err # DriverFault

C3_RoundTrip ==
    (/\ impl = "postgres"
     /\ last.op = "GetOrder"
     /\ Answered(last))
    => \A a \in acked :
          (a.id = last.req.Id /\ ValidCreate(a.req))
          => /\ ~last.panicked
             /\ last.err = Nil
             /\ last.resp # Nil
             /\ last.resp[1].Order # Nil
             /\ LET w == last.resp[1].Order[1]
                IN  /\ w.Id = a.id
                    /\ w.UserId = a.req.UserId
                    /\ w.Item = a.req.Item
                    /\ FloatEq(w.Amount, a.req.Amount)
                    /\ w.Status = "NEW"

\* what the code does give: the same, with the amount as DECIMAL(10, 2) keeps it
C3_RoundTripToTheCent ==
    (/\ impl = "postgres"
     /\ last.op = "GetOrder"
     /\ Answered(last))
    => \A a \in acked :
          a.id = last.req.Id
          => /\ ~last.panicked
             /\ last.err = Nil
             /\ last.resp # Nil
             /\ last.resp[1].Order # Nil
             /\ LET w == last.resp[1].Order[1]
                IN  /\ w.Id = a.id
                    /\ w.UserId = a.req.UserId
                    /\ w.Item = a.req.Item
                    /\ w.Amount = ToDecimal(a.req.Amount).val
                    /\ w.Status = "NEW"

----------------------------------------------------------------------------
(* C4: CheckOrderOwner with both fields non-empty, the store returning an  *)
(* order and no error: it succeeds with the empty response iff the         *)
(* order's user_id equals the request's; otherwise it fails with           *)
(* PermissionDenied, a nil response and the message "order does not        *)
(* belong to user".                                                        *)

C4_OwnershipIsEquality ==
    (/\ last.op = "CheckOrderOwner"
     /\ last.req.OrderId # ""
     /\ last.req.UserId # ""
     /\ Len(last.calls) = 1
     /\ last.calls[1].ret.err = Nil
     /\ last.calls[1].ret.order # Nil)
    => IF last.calls[1].ret.order[1].UserID = last.req.UserId
       THEN /\ ~last.panicked
            /\ last.err = Nil
            /\ last.resp = Some(CheckOrderOwnerResponse)
       ELSE /\ FailedWith(last, CodePermissionDenied)
            /\ Message(last.err[1]) = "order does not belong to user"

\* the table holds the order, another user asked, and was denied
C4_Witness ==
    /\ impl = "postgres"
    /\ last.op = "CheckOrderOwner"
    /\ \E r \in db : r.id = last.req.OrderId /\ r.user_id = "u1"
    /\ last.req.UserId = "u2"
    /\ FailedWith(last, CodePermissionDenied)

----------------------------------------------------------------------------
(* C5: CheckOrderOwner, both fields non-empty, for an order_id no          *)
(* persisted order has: the answer is NotFound whenever the store answers  *)
(* the lookup, and never PermissionDenied; and whenever the store reports  *)
(* not-found, the answer is NotFound whatever order it returned with it    *)
(* (not-found is decided before the ownership comparison).                 *)

C5_NotFoundBeforeOwnership ==
    (/\ last.op = "CheckOrderOwner"
     /\ last.req.OrderId # ""
     /\ last.req.UserId # "")
    => /\ (impl = "postgres" /\ ~Persisted(db, last.req.OrderId))
          => /\ CodeOf(last) # CodePermissionDenied
             /\ Answered(last) => FailedWith(last, CodeNotFound)
       /\ (/\ Len(last.calls) = 1
           /\ \E i \in DOMAIN last.calls[1].ret.err :
                 last.calls[1].ret.err[i].ident = "store.ErrOrderNotFound")
          => FailedWith(last, CodeNotFound)

\* the table holds an order, and an id it does not hold was asked for
C5_Witness ==
    /\ impl = "postgres"
    /\ last.op = "CheckOrderOwner"
    /\ last.req.UserId = "u1"
    /\ db # {}
    /\ ~Persisted(db, last.req.OrderId)
    /\ FailedWith(last, CodeNotFound)

----------------------------------------------------------------------------
(* C6: against the orders table, no store call having met a driver fault,  *)
(* GetOrder(id), id non-empty, is answered NotFound iff no row has that    *)
(* id; the store returned the ErrOrderNotFound sentinel then; and an id no *)
(* successful CreateOrder returned is answered NotFound.                   *)

C6_NotFoundIffAbsent ==
    (/\ impl = "postgres"
     /\ last.op = "GetOrder"
     /\ last.req.Id # ""
     /\ ~faulted)
    => /\ FailedWith(last, CodeNotFound) <=> ~Persisted(db, last.req.Id)
       /\ CodeOf(last) = CodeNotFound <=> ~Persisted(db, last.req.Id)
       /\ ~Persisted(db, last.req.Id)
          => /\ Len(last.calls) = 1
             /\ last.calls[1].ret.err = ErrOrderNotFound
             /\ last.err[1].cause = ErrOrderNotFound
       /\ (\A a \in acked : a.id # last.req.Id) => FailedWith(last, CodeNotFound)

\* the table holds an order, and GetOrder of the other id was answered NotFound
C6_Witness ==
    /\ impl = "postgres"
    /\ ~faulted
    /\ last.op = "GetOrder"
    /\ db # {}
    /\ last.req.Id # ""
    /\ ~Persisted(db, last.req.Id)
    /\ FailedWith(last, CodeNotFound)

----------------------------------------------------------------------------
(* C7: GetOrder with an empty id, and CheckOrderOwner with an empty        *)
(* order_id or an empty user_id (either one alone suffices), fail with     *)
(* InvalidArgument and a nil response, and make no store call.             *)

C7_EmptyFieldsRejected ==
    (\/ last.op = "GetOrder" /\ last.req.Id = ""
     \/ last.op = "CheckOrderOwner" /\ (last.req.OrderId = "" \/ last.req.UserId = ""))
    => /\ FailedWith(last, CodeInvalidArgument)
       /\ last.calls = <<>>

\* CheckOrderOwner of an order the table holds, with an empty user_id
C7_Witness ==
    /\ impl = "postgres"
    /\ last.op = "CheckOrderOwner"
    /\ Persisted(db, last.req.OrderId)
    /\ last.req.UserId = ""
    /\ FailedWith(last, CodeInvalidArgument)

----------------------------------------------------------------------------
(* C8: in GetOrder and CheckOrderOwner, when store.Get returned an error,  *)
(* the response is nil and the code is NotFound iff the error is or wraps  *)
(* the ErrOrderNotFound sentinel, and Internal iff it does not; the text   *)
(* of the error plays no part.                                             *)

C8_SentinelDecides ==
    (/\ last.op \in {"GetOrder", "CheckOrderOwner"}
     /\ Len(last.calls) = 1
     /\ last.calls[1].ret.err # Nil)
    => LET e        == last.calls[1].ret.err
           sentinel == \E i \in DOMAIN e : e[i].ident = "store.ErrOrderNotFound"
       IN  /\ ~last.panicked
           /\ last.resp = Nil
           /\ last.err # Nil
           /\ sentinel => last.err[1].code = CodeNotFound
           /\ ~sentinel => last.err[1].code = CodeInternal

\* both ways the text misleads: an error that is not the sentinel and reads
\* "order not found" gave Internal; GetOrder is the operation
C8_Witness ==
    /\ last.op = "GetOrder"
    /\ Len(last.calls) = 1
    /\ last.calls[1].ret.err = ErrorsNew("errors.New@test", "order not found")
    /\ FailedWith(last, CodeInternal)

----------------------------------------------------------------------------
(* C9: in CreateOrder and ListOrders, whatever error the store call        *)
(* returned, the ErrOrderNotFound sentinel included, the answer is         *)
(* Internal with a nil response; the store was called once, not again.     *)

C9_StoreErrorIsInternal ==
    (/\ last.op \in {"CreateOrder", "ListOrders"}
     /\ \E i \in DOMAIN last.calls : last.calls[i].ret.err # Nil)
    => /\ Len(last.calls) = 1
       /\ last.calls[1].fn = (IF last.op = "CreateOrder" THEN "Create" ELSE "List")
       /\ FailedWith(last, CodeInternal)
       /\ last.err[1].cause = last.calls[1].ret.err

\* store.Create returned the sentinel and CreateOrder answered Internal
C9_Witness ==
    /\ last.op = "CreateOrder"
    /\ Len(last.calls) = 1
    /\ last.calls[1].ret.err = ErrOrderNotFound
    /\ FailedWith(last, CodeInternal)

----------------------------------------------------------------------------
(* C10: when store.List returned no error, ListOrders succeeds with as     *)
(* many orders as the store returned, the i-th the wire form of the        *)
(* store's i-th; a nil or empty result gives a success with no orders.     *)

C10_ListPreservesStoreOrder ==
    (/\ last.op = "ListOrders"
     /\ Len(last.calls) = 1
     /\ last.calls[1].ret.err = Nil)
    => LET got == last.calls[1].ret.orders.elems
       IN  /\ ~last.panicked
           /\ last.err = Nil
           /\ last.resp # Nil
           /\ last.resp[1].Order = Nil
           /\ Len(last.resp[1].Orders) = Len(got)
           /\ \A i \in 1..Len(got) :
                 /\ last.resp[1].Orders[i] = entityToProto(got[i])
                 /\ last.resp[1].Orders[i].Id = got[i].ID

\* the store returned two different orders
C10_Witness ==
    /\ last.op = "ListOrders"
    /\ Len(last.calls) = 1
    /\ last.calls[1].ret.err = Nil
    /\ Len(last.calls[1].ret.orders.elems) = 2
    /\ last.calls[1].ret.orders.elems[1] # last.calls[1].ret.orders.elems[2]
    /\ last.resp # Nil
    /\ Len(last.resp[1].Orders) = 2

----------------------------------------------------------------------------
(* C11: against PostgresStore, a ListOrders that succeeds returns every    *)
(* order a CreateOrder answered with success, each exactly once, and the   *)
(* sequence is in non-increasing created_at order.                         *)

C11_ListHasEveryCreatedOrder ==
    (/\ impl = "postgres"
     /\ last.op = "ListOrders"
     /\ last.err = Nil)
    => /\ last.resp # Nil
       /\ LET os  == last.resp[1].Orders
              got == last.calls[1].ret.orders.elems
          IN  /\ \A a \in acked :
                    /\ Cardinality({i \in DOMAIN os : os[i].Id = a.id}) = 1
                    /\ \A i \in DOMAIN os :
                          os[i].Id = a.id =>
                              /\ os[i].UserId = a.req.UserId
                              /\ os[i].Item = a.req.Item
              /\ \A i, j \in DOMAIN os : i < j => os[i].Id # os[j].Id
              /\ \A i, j \in DOMAIN got :
                    i < j => got[i].CreatedAt.t >= got[j].CreatedAt.t
              /\ \A i, j \in DOMAIN os :
                    i < j => os[i].CreatedAt.wall >= os[j].CreatedAt.wall

\* two orders created at different instants, both listed, the later first
C11_Witness ==
    /\ impl = "postgres"
    /\ last.op = "ListOrders"
    /\ last.err = Nil
    /\ Cardinality(acked) = 2
    /\ last.resp # Nil
    /\ Len(last.resp[1].Orders) = 2
    /\ last.calls[1].ret.orders.elems[1].CreatedAt.t
           > last.calls[1].ret.orders.elems[2].CreatedAt.t

----------------------------------------------------------------------------
(* C12: CreateOrder is not idempotent.  Against PostgresStore every        *)
(* CreateOrder that succeeds returns a non-empty id that no earlier        *)
(* successful CreateOrder returned, the request being the same or not, and *)
(* adds one order to those the table holds.                                *)

C12_CreateNotIdempotent ==
    [][(/\ impl = "postgres"
        /\ last'.op = "CreateOrder"
        /\ last'.err = Nil)
       => /\ last'.resp # Nil
          /\ last'.resp[1].Order # Nil
          /\ LET id == last'.resp[1].Order[1].Id
             IN  /\ id # ""
                 /\ \A a \in acked : a.id # id
                 /\ ~Persisted(db, id)
                 /\ Persisted(db', id)
                 /\ db \subseteq db'
                 /\ Cardinality(db') = Cardinality(db) + 1]_vars

\* the same request succeeded twice: two ids, two rows
C12_Witness ==
    /\ impl = "postgres"
    /\ last.op = "CreateOrder"
    /\ last.err = Nil
    /\ \E a, b \in acked :
          /\ a.req = b.req
          /\ a.req = last.req
          /\ a.id # b.id
          /\ Persisted(db, a.id)
          /\ Persisted(db, b.id)
    /\ Cardinality(db) = 2

----------------------------------------------------------------------------
(* C13: no two persisted orders share an id.  An id enters the table only  *)
(* in a CreateOrder, as the id the handler generated for that call, and a  *)
(* row once written never changes or disappears; a CreateOrder whose       *)
(* generated id the table already holds leaves the table as it was and     *)
(* fails with Internal.                                                    *)

C13_IdsUnique ==
    [][/\ \A r1, r2 \in db' : r1.id = r2.id => r1 = r2
       /\ db \subseteq db'
       /\ \A r \in db' \ db :
             /\ last'.op = "CreateOrder"
             /\ Len(last'.calls) = 1
             /\ r.id = last'.calls[1].order[1].ID
             /\ r.id \in UUIDs
       /\ (/\ impl = "postgres"
           /\ last'.op = "CreateOrder"
           /\ Len(last'.calls) = 1
           /\ Persisted(db, last'.calls[1].order[1].ID))
          => /\ db' = db
             /\ FailedWith(last', CodeInternal)]_vars

\* the generated id met a row of another amount: the unique violation came
\* back as Internal and the row is the one that was there
C13_Witness ==
    /\ impl = "postgres"
    /\ last.op = "CreateOrder"
    /\ Len(last.calls) = 1
    /\ last.calls[1].ret.err = PqUniqueViolation
    /\ FailedWith(last, CodeInternal)
    /\ \E r \in db :
          /\ r.id = last.calls[1].order[1].ID
          /\ r.amount # EntityToRow(last.calls[1].order[1]).amount
    /\ Cardinality(db) = 1

----------------------------------------------------------------------------
(* C14: every persisted order has a non-empty user_id, a non-empty item    *)
(* and an amount > 0, the amount being the value the table holds.          *)

C14_PersistedOrdersValid ==
    \A r \in db :
        /\ r.user_id # ""
        /\ r.item # ""
        /\ GtZero(r.amount)

\* the part of it that holds: the strings, and no amount below zero
C14_PersistedStringsValid ==
    \A r \in db :
        /\ r.user_id # ""
        /\ r.item # ""
        /\ ~(r.amount.cls = "fin" /\ r.amount.neg)

----------------------------------------------------------------------------
(* C15: every persisted order has status NEW, after any sequence of the    *)
(* four operations, and so has every order GetOrder and ListOrders return  *)
(* from the table.                                                         *)

C15_StatusAlwaysNew ==
    /\ \A r \in db : r.status = OrderStatusNew
    /\ (impl = "postgres" /\ last.resp # Nil)
       => /\ \A i \in DOMAIN last.resp[1].Order :
                last.resp[1].Order[i].Status = OrderStatusNew
          /\ \A i \in DOMAIN last.resp[1].Orders :
                last.resp[1].Orders[i].Status = OrderStatusNew

\* two orders are persisted and an owner check on one of them just succeeded
C15_Witness ==
    /\ impl = "postgres"
    /\ Cardinality(db) = 2
    /\ last.op = "CheckOrderOwner"
    /\ ~last.panicked
    /\ last.err = Nil
    /\ last.resp # Nil

----------------------------------------------------------------------------
(* C16: GetOrder, ListOrders and CheckOrderOwner are pure reads: whatever  *)
(* the outcome, the persisted orders are unchanged, so the same call       *)
(* repeated with no CreateOrder in between returns the same result.        *)

Reads == {"GetOrder", "ListOrders", "CheckOrderOwner"}

\* the outcome of an invocation
Outcome(inv) == <<inv.resp, inv.err, inv.panicked>>

----------------------------------------------------------------------------
(* C17: every invocation returns either a response and no error, or no     *)
(* response and an error whose code is one of the operation's own:         *)
(* CreateOrder InvalidArgument, Internal; GetOrder InvalidArgument,        *)
(* NotFound, Internal; ListOrders Internal; CheckOrderOwner                *)
(* InvalidArgument, NotFound, PermissionDenied, Internal.                  *)

CodesOf(op) ==
    IF op = "CreateOrder" THEN {CodeInvalidArgument, CodeInternal}
    ELSE IF op = "GetOrder" THEN {CodeInvalidArgument, CodeNotFound, CodeInternal}
    ELSE IF op = "ListOrders" THEN {CodeInternal}
    ELSE {CodeInvalidArgument, CodeNotFound, CodePermissionDenied, CodeInternal}

\* the invocation returned, and what it returned is one of the two shapes
ReturnedInShape(inv) ==
    /\ ~inv.panicked
    /\ \/ inv.resp # Nil /\ inv.err = Nil
       \/ inv.resp = Nil /\ inv.err # Nil /\ inv.err[1].code \in CodesOf(inv.op)

\* as stated.  The code breaks it: GetOrder and CheckOrderOwner dereference
\* the nil order a store returned with a nil error, and return nothing.
C17_OneOutcome == last.op # "" => ReturnedInShape(last)

\* what holds: every invocation that returns does so in one of the two
\* shapes, and against PostgresStore every invocation returns
C17_OneOutcomeUnlessNilOrder ==
    /\ (last.op # "" /\ ~last.panicked) => ReturnedInShape(last)
    /\ (last.op # "" /\ impl = "postgres") => ReturnedInShape(last)

----------------------------------------------------------------------------
(* C18: entityToProto renders created_at as an RFC3339 string in UTC (zero *)
(* offset, the "Z" suffix), whatever zone the entity's CreatedAt carries.  *)

\* the conversions of an invocation: <<entity, wire order>> for every order
\* of its response
Conversions(inv) ==
    IF inv.resp = Nil \/ inv.calls = <<>> THEN {}
    ELSE LET c == inv.calls[1]
         IN  IF inv.op = "CreateOrder" THEN {<<c.order[1], inv.resp[1].Order[1]>>}
             ELSE IF inv.op = "GetOrder" THEN {<<c.ret.order[1], inv.resp[1].Order[1]>>}
             ELSE IF inv.op = "ListOrders"
                  THEN {<<c.ret.orders.elems[i], inv.resp[1].Orders[i]>> :
                           i \in DOMAIN inv.resp[1].Orders}
             ELSE {}

\* as stated.  The code breaks it: Format is applied to the value as it is,
\* so a CreatedAt of another zone is written in that zone, with its offset.
C18_CreatedAtInUTC ==
    \A p \in Conversions(last) :
        /\ p[2].CreatedAt.zone = 0
        /\ p[2].CreatedAt.wall = p[1].CreatedAt.t \div TicksPerSecond

\* what holds: the string is the wall time of the value's own zone, and it
\* is UTC for the orders the service creates and reads from the table
C18_CreatedAtInOwnZone ==
    \A p \in Conversions(last) :
        /\ p[2].CreatedAt.zone = p[1].CreatedAt.off
        /\ p[2].CreatedAt.wall = (p[1].CreatedAt.t \div TicksPerSecond) + p[1].CreatedAt.off
        /\ (impl = "postgres" \/ last.op = "CreateOrder") => p[2].CreatedAt.zone = 0

----------------------------------------------------------------------------
(* C19: entityToProto copies id, user_id, item and amount unchanged and    *)
(* renders the status as its name; the same entity always yields the same  *)
(* wire order.                                                             *)

C19_FieldsCopied ==
    /\ \A p \in Conversions(last) :
          /\ p[2].Id = p[1].ID
          /\ p[2].UserId = p[1].UserID
          /\ p[2].Item = p[1].Item
          /\ p[2].Amount = p[1].Amount
          /\ p[1].Status = OrderStatusNew => p[2].Status = "NEW"
          /\ p[1].Status = OrderStatusInProgress => p[2].Status = "IN_PROGRESS"
          /\ p[1].Status = OrderStatusFinished => p[2].Status = "FINISHED"
    /\ \A p, q \in Conversions(last) : p[1] = q[1] => p[2] = q[2]

\* a list of a FINISHED and an IN_PROGRESS order was converted
C19_Witness ==
    /\ last.op = "ListOrders"
    /\ \E p, q \in Conversions(last) :
          /\ p[1].Status = OrderStatusFinished
          /\ p[2].Status = "FINISHED"
          /\ q[1].Status = OrderStatusInProgress
          /\ q[2].Status = "IN_PROGRESS"
          /\ p[2].Id # p[2].UserId

----------------------------------------------------------------------------
(* C20: each Server method is observationally equal to its handler: the    *)
(* outcome of an invocation is what the operation's handler, built on the  *)
(* store given to NewServer, returns for the caller's request, and all     *)
(* four handlers hold that one store.                                      *)

\* what a handler built on the store given to NewServer returns for the
\* caller's request, the store having answered as recorded; the store call
\* it makes is the recorded one
HandlerOutcome(inv) ==
    LET invalid == IF inv.op = "CreateOrder" THEN createOrderValidate(inv.req)
                   ELSE IF inv.op = "GetOrder" THEN getOrderValidate(inv.req)
                   ELSE IF inv.op = "ListOrders" THEN listOrdersValidate(inv.req)
                   ELSE checkOrderOwnerValidate(inv.req)
    IN  IF invalid # Nil THEN [calls |-> 0, args |-> TRUE, out |-> Return(Nil, invalid)]
        ELSE IF inv.calls = <<>> THEN [calls |-> 1, args |-> FALSE, out |-> Panic]
        ELSE LET c == inv.calls[1]
             IN  IF inv.op = "CreateOrder"
                 THEN [calls |-> 1,
                       args  |-> /\ c.fn = "Create"
                                 /\ c.order = Some(NewOrder(inv.req, c.order[1].ID, inv.clock[1])),
                       out   |-> createOrderReturn(c.order[1], c.ret.err)]
                 ELSE IF inv.op = "GetOrder"
                 THEN [calls |-> 1,
                       args  |-> c.fn = "Get" /\ c.id = inv.req.Id,
                       out   |-> getOrderReturn(c.ret.order, c.ret.err)]
                 ELSE IF inv.op = "ListOrders"
                 THEN [calls |-> 1,
                       args  |-> c.fn = "List",
                       out   |-> listOrdersReturn(c.ret.orders, c.ret.err)]
                 ELSE [calls |-> 1,
                       args  |-> c.fn = "Get" /\ c.id = inv.req.OrderId,
                       out   |-> checkOrderOwnerReturn(inv.req, c.ret.order, c.ret.err)]

C20_ServerForwards ==
    /\ \A f \in DOMAIN server : server[f].store = impl
    /\ last.op # ""
       => /\ \A i \in DOMAIN last.calls : last.calls[i].on = impl
          /\ Len(last.calls) = HandlerOutcome(last).calls
          /\ HandlerOutcome(last).args
          /\ Outcome(last) = <<HandlerOutcome(last).out.resp,
                               HandlerOutcome(last).out.err,
                               HandlerOutcome(last).out.panicked>>

\* an order the create handler wrote is found by the handlers of GetOrder
\* and CheckOrderOwner: here the owner check of a created order succeeded
C20_Witness ==
    /\ impl = "postgres"
    /\ last.op = "CheckOrderOwner"
    /\ last.err = Nil
    /\ last.resp # Nil
    /\ Len(last.calls) = 1
    /\ last.calls[1].on = "postgres"
    /\ \E a \in acked : a.id = last.req.OrderId

----------------------------------------------------------------------------
(* C21: under any interleaving of concurrent invocations the Server and    *)
(* its handlers are never written after construction, every invocation     *)
(* makes its store call with its own arguments and returns what its own    *)
(* request and the answer to its own call determine, and the CreateOrder   *)
(* invocations whose store Create succeeded have each left one order of    *)
(* its own in the store, all of different ids.                             *)

\* the CreateOrder invocations whose store call has been made
CreateCalls == {i \in DOMAIN inflight : inflight[i].op = "CreateOrder" /\ inflight[i].call # <<>>}

\* those of them whose store call succeeded
CreatesSucceeded == {i \in CreateCalls : inflight[i].call[1].ret.err = Nil}

\* the invocation's store call had the invocation's own arguments
OwnArguments(me) ==
    LET c == me.call[1]
    IN  /\ c.on = impl
        /\ IF me.op = "CreateOrder" THEN c.fn = "Create" /\ c.order = me.order
           ELSE IF me.op = "GetOrder" THEN c.fn = "Get" /\ c.id = me.req.Id
           ELSE IF me.op = "ListOrders" THEN c.fn = "List"
           ELSE c.fn = "Get" /\ c.id = me.req.OrderId

\* the invocation's outcome is that of its own request and its own answer
OwnOutcome(me) ==
    IF me.call = <<>> THEN me.out = Return(Nil, Validate(me.op, me.req))
    ELSE LET c == me.call[1]
         IN  me.out =
                 IF me.op = "CreateOrder" THEN createOrderReturn(me.order[1], c.ret.err)
                 ELSE IF me.op = "GetOrder" THEN getOrderReturn(c.ret.order, c.ret.err)
                 ELSE IF me.op = "ListOrders" THEN listOrdersReturn(c.ret.orders, c.ret.err)
                 ELSE checkOrderOwnerReturn(me.req, c.ret.order, c.ret.err)

C21_Stateless ==
    /\ \A i \in DOMAIN inflight :
          /\ inflight[i].call # <<>> => OwnArguments(inflight[i])
          /\ inflight[i].pc = "done" => OwnOutcome(inflight[i])
          /\ (inflight[i].pc = "done" /\ i \in CreatesSucceeded)
             => /\ inflight[i].out.resp # Nil
                /\ inflight[i].out.resp[1].Order[1].UserId = inflight[i].req.UserId
                /\ Persisted(db, inflight[i].out.resp[1].Order[1].Id)
    /\ \A i \in CreatesSucceeded : EntityToRow(inflight[i].order[1]) \in db
    /\ \A i, j \in CreatesSucceeded : i # j => inflight[i].order[1].ID # inflight[j].order[1].ID
    /\ Cardinality(db) >= Cardinality(CreatesSucceeded)
    /\ \A r \in db : \E i \in CreateCalls : r = EntityToRow(inflight[i].order[1])

C21_NoSharedState == [][server' = server /\ impl' = impl /\ C21_Stateless']_vars

\* two CreateOrder invocations of the same request are between their store
\* call and their return at the same time, both calls having succeeded
C21_Witness ==
    /\ \A i \in DOMAIN inflight : inflight[i].pc = "answered"
    /\ Cardinality(CreatesSucceeded) = MaxInflight
    /\ Cardinality(db) = MaxInflight

----------------------------------------------------------------------------
(* C22: every invocation makes at most one store call: none when the       *)
(* request fails validation, and exactly one when it passes, of the        *)
(* operation's own kind (Create for CreateOrder, Get for GetOrder and      *)
(* CheckOrderOwner, List for ListOrders).                                  *)

\* the request is one the operation's validation rejects, told by its fields
Rejected(inv) ==
    IF inv.op = "CreateOrder"
    THEN inv.req.UserId = "" \/ inv.req.Item = "" \/ LeqZero(inv.req.Amount)
    ELSE IF inv.op = "GetOrder" THEN inv.req.Id = ""
    ELSE IF inv.op = "ListOrders" THEN FALSE
    ELSE inv.req.OrderId = "" \/ inv.req.UserId = ""

C22_AtMostOneStoreCall ==
    last.op # ""
    => /\ Len(last.calls) <= 1
       /\ Rejected(last) <=> last.calls = <<>>
       /\ \A i \in DOMAIN last.calls :
             last.calls[i].fn = (IF last.op = "CreateOrder" THEN "Create"
                                 ELSE IF last.op = "ListOrders" THEN "List"
                                 ELSE "Get")

\* an owner check that ended in PermissionDenied made its one Get
C22_Witness ==
    /\ last.op = "CheckOrderOwner"
    /\ FailedWith(last, CodePermissionDenied)
    /\ Len(last.calls) = 1
    /\ last.calls[1].fn = "Get"
    /\ last.calls[1].id = last.req.OrderId

----------------------------------------------------------------------------
(* C23: the store is append-only under the service.  A successful          *)
(* CreateOrder adds exactly one record and leaves every other as it was;   *)
(* no step of any operation changes a field of a persisted order or        *)
(* removes it.                                                             *)

C23_AppendOnly ==
    [][/\ \A r \in db : r \in db'
       /\ \A r \in db : \A r2 \in db' : r2.id = r.id => r2 = r
       /\ (impl = "postgres" /\ last'.op = "CreateOrder" /\ last'.err = Nil)
          => /\ Cardinality(db' \ db) = 1
             /\ \A r \in db' \ db : r = EntityToRow(last'.calls[1].order[1])
       /\ last'.op # "CreateOrder" => db' = db]_vars

\* a second order was created and the first is still in the table
C23_Witness ==
    /\ impl = "postgres"
    /\ last.op = "CreateOrder"
    /\ last.err = Nil
    /\ last.resp # Nil
    /\ \E a \in acked :
          /\ a.id # last.resp[1].Order[1].Id
          /\ \E r \in db : r.id = a.id /\ r.user_id = a.req.UserId /\ r.item = a.req.Item
    /\ Persisted(db, last.resp[1].Order[1].Id)

----------------------------------------------------------------------------
(* C24: every handler hands the caller's request context itself to its     *)
(* store call; when that context is cancelled and the store call returns   *)
(* the cancellation as its error, the handler returns an error and a nil   *)
(* response, never a success.                                              *)

C24_CancellationPropagates ==
    \A i \in DOMAIN inflight :
        LET me == inflight[i]
        IN  /\ me.call # <<>> => me.passed = i
            /\ (me.cancelled /\ me.call # <<>>) => me.call[1].ret.err = DriverFault
            /\ (me.pc = "done" /\ me.call # <<>> /\ me.call[1].ret.err = DriverFault)
               => /\ ~me.out.panicked
                  /\ me.out.resp = Nil
                  /\ me.out.err # Nil
                  /\ me.out.err[1].cause = DriverFault

\* a GetOrder whose context was cancelled before its store call has returned
\* the error, while the table held the order it asked for
C24_Witness ==
    \E i \in DOMAIN inflight :
        /\ inflight[i].pc = "done"
        /\ inflight[i].op = "GetOrder"
        /\ inflight[i].cancelled
        /\ inflight[i].call # <<>>
        /\ inflight[i].out.err # Nil
        /\ Persisted(db, inflight[i].req.Id)

----------------------------------------------------------------------------
(* C25: real-time order of listing.  If CreateOrder A returned its success *)
(* before CreateOrder B was invoked, every later ListOrders has B before   *)
(* A, also when the two fall within the same timestamp resolution or the   *)
(* wall clock does not advance between them.                               *)

\* the place of the order of this id in the invocation's response
PlaceOf(inv, id) == CHOOSE i \in DOMAIN inv.resp[1].Orders : inv.resp[1].Orders[i].Id = id

\* as stated, for the ListOrders that follows B's return, when the stored
\* created_at of A is not after that of B (the wall clock did not go back).
\* The code breaks it: the order is that of created_at alone, and two
\* orders of one created_at come out either way round.
C25_NewerFirst ==
    [][(/\ impl = "postgres"
        /\ last.op = "CreateOrder"
        /\ last.err = Nil
        /\ last'.op = "ListOrders"
        /\ last'.err = Nil)
       => LET b == last.resp[1].Order[1].Id
          IN  \A a \in acked : \A ra, rb \in db :
                 (a.id # b /\ ra.id = a.id /\ rb.id = b /\ ra.created_at <= rb.created_at)
                    => PlaceOf(last', b) < PlaceOf(last', a.id)]_vars

\* what holds: of two orders of different created_at the later one is first
C25_LaterCreatedAtFirst ==
    (/\ impl = "postgres"
     /\ last.op = "ListOrders"
     /\ last.err = Nil
     /\ last.resp # Nil)
    => \A ra, rb \in db :
          ra.created_at < rb.created_at => PlaceOf(last, rb.id) < PlaceOf(last, ra.id)

----------------------------------------------------------------------------
(* C26: GetOrder and CheckOrderOwner never dereference a nil order: with   *)
(* PostgresStore and with MockOrderStore, also one whose GetFunc is unset, *)
(* a Get that returns a nil error returns an order, so an invocation ends  *)
(* in a response or an error and never in a crash.                         *)

\* as stated, for PostgresStore and for a MockOrderStore with no GetFunc.
\* The code breaks it: the mock's Get then returns (nil, nil), and Handle
\* reads a field of the nil order.
C26_NoNilOrder ==
    (/\ last.op \in {"GetOrder", "CheckOrderOwner"}
     /\ impl = "postgres" \/ ~mock.GetFunc)
    => /\ ~last.panicked
       /\ \A i \in DOMAIN last.calls :
             last.calls[i].ret.err = Nil => last.calls[i].ret.order # Nil

\* what holds: it is so with PostgresStore
C26_NoNilOrderFromPostgres ==
    (/\ last.op \in {"GetOrder", "CheckOrderOwner"}
     /\ impl = "postgres")
    => /\ ~last.panicked
       /\ \A i \in DOMAIN last.calls :
             last.calls[i].ret.err = Nil => last.calls[i].ret.order # Nil

----------------------------------------------------------------------------
(* The process: func main.  main records how far the process got, what the *)
(* three steps of NewPostgresStore answered ("" for a step not reached),   *)
(* whether pgStore.Close is deferred, whether the listener accepted        *)
(* connections, and whether Close ran.  Requests are served only while     *)
(* ListenAndServe is running.                                              *)

\* what the database may answer to sqlx.Open, db.Ping and createSchema
StartupAnswers == [open : {"ok", "err"}, ping : {"ok", "err"}, schema : {"ok", "err"}]

\* orderService before orders.NewServer has run
NoServer == NewServer("")

NewPostgresStore_IgnoreSchemaError(answers) ==
    LET open   == answers.open
        ping   == IF open = "ok" THEN answers.ping ELSE ""
        schema == IF ping = "ok" THEN answers.schema ELSE ""
    IN  [open |-> open, ping |-> ping, schema |-> schema,
         store |-> IF ping = "ok" THEN "postgres" ELSE "",
         err   |-> IF ping = "ok" THEN Nil ELSE DriverFault]

\* func NewPostgresStore(connStr) (*PostgresStore, error): each step's
\* error is returned at once, the store only after all three
NewPostgresStore(answers) ==
    LET open   == answers.open
        ping   == IF open = "ok" THEN answers.ping ELSE ""
        schema == IF ping = "ok" THEN answers.schema ELSE ""
    IN  [open |-> open, ping |-> ping, schema |-> schema,
         store |-> IF schema = "ok" THEN "postgres" ELSE "",
         err   |-> IF schema = "ok" THEN Nil ELSE DriverFault]

\* log.Fatalf: prints and calls os.Exit(1); deferred calls do not run
Fatalf(m) == [m EXCEPT !.pc = "exited"]

\* main returns: the deferred pgStore.Close() runs, then the process exits
ReturnFromMain(m) == [m EXCEPT !.pc = "exited", !.closed = m.deferred]

\* main, lines 16-25: connect; on an error Fatalf, else defer pgStore.Close()
MainNewPostgresStore ==
    /\ main.pc = "none"
    /\ \E answers \in StartupAnswers :
          LET got     == NewPostgresStore(answers)
              started == [main EXCEPT !.open = got.open, !.ping = got.ping,
                                      !.schema = got.schema]
          IN  main' = IF got.err # Nil
                      THEN Fatalf(started)
                      ELSE [started EXCEPT !.pc = "store", !.deferred = TRUE]
    /\ UNCHANGED <<impl, server, mock, db, acked, faulted, last, inflight>>

\* main, lines 27-31: orderService := orders.NewServer(pgStore), mounted
MainNewServer ==
    /\ main.pc = "store"
    /\ server' = NewServer(impl)
    /\ main' = [main EXCEPT !.pc = "wired"]
    /\ UNCHANGED <<impl, mock, db, acked, faulted, last, inflight>>

\* main, line 36: http.ListenAndServe binds the port and serves, or returns
\* the bind error (lines 37-39: Fatalf)
MainListenAndServe ==
    /\ main.pc = "wired"
    /\ \E bind \in {"ok", "err"} :
          main' = IF bind = "ok"
                  THEN [main EXCEPT !.pc = "serving", !.listened = TRUE]
                  ELSE Fatalf(main)
    /\ UNCHANGED <<impl, server, mock, db, acked, faulted, last, inflight>>

\* the listener stops: ListenAndServe returns, always with a non-nil error
\* (lines 36-39); a nil error would let main return (line 40)
MainListenerStops ==
    /\ main.pc = "serving"
    /\ \E err \in {DriverFault} :
          main' = IF err # Nil THEN Fatalf(main) ELSE ReturnFromMain(main)
    /\ UNCHANGED <<impl, server, mock, db, acked, faulted, last, inflight>>

\* the mounted handler serves a request while the listener runs
HTTPCreateOrder     == main.pc = "serving" /\ CreateOrder
HTTPGetOrder        == main.pc = "serving" /\ GetOrder
HTTPListOrders      == main.pc = "serving" /\ ListOrders
HTTPCheckOrderOwner == main.pc = "serving" /\ CheckOrderOwner

InitMain ==
    /\ impl = "postgres"
    /\ server = NoServer
    /\ mock = [CreateFunc |-> FALSE, GetFunc |-> FALSE, ListFunc |-> FALSE]
    /\ db = {}
    /\ acked = {}
    /\ faulted = FALSE
    /\ last = NoInvocation
    /\ inflight = <<>>
    /\ main = NotStarted

NextMain ==
    \/ MainNewPostgresStore
    \/ MainNewServer
    \/ MainListenAndServe
    \/ MainListenerStops
    \/ HTTPCreateOrder
    \/ HTTPGetOrder
    \/ HTTPListOrders
    \/ HTTPCheckOrderOwner

SpecMain == InitMain /\ [][NextMain]_vars

----------------------------------------------------------------------------
(* C27: once the store has been opened at startup, its Close is invoked    *)
(* before the process exits, on every exit path, in particular when the    *)
(* HTTP listener stops with an error.                                      *)

\* as stated.  The code breaks it: the exit after ListenAndServe is
\* log.Fatalf, which ends the process without running the deferred Close.
C27_CloseBeforeExit ==
    (main.pc = "exited" /\ main.deferred) => main.closed

----------------------------------------------------------------------------
(* C28: the process listens only after the store was opened, pinged and    *)
(* its schema created, all without error; when one of the steps fails the  *)
(* process exits without listening and without a handler having run.       *)
C28_ServeOnlyAfterInit ==
    /\ (main.pc \in {"wired", "serving"} \/ main.listened \/ last.op # "")
          => (main.open = "ok" /\ main.ping = "ok" /\ main.schema = "ok")
    /\ ("err" \in {main.open, main.ping, main.schema})
          => (main.pc = "exited" /\ ~main.listened /\ last = NoInvocation
              /\ server = NoServer)

C28_Witness ==
    /\ main.listened
    /\ main.schema = "ok"
    /\ last.op = "CreateOrder"
    /\ last.err = Nil
    /\ db # {}

----------------------------------------------------------------------------
(* C29: the outcome of CheckOrderOwner depends only on the request's       *)
(* order_id and user_id and on the stored order's existence and user_id:   *)
(* in two tables with the same ids and the same user_id for each id, that  *)
(* differ in item, amount, status or created_at, every CheckOrderOwner     *)
(* request has the same outcome; and the success response carries no       *)
(* field of the order.                                                     *)

\* the rows that agree with r on id and user_id
FieldVariants(r) ==
    {[r EXCEPT !.item = i, !.amount = a, !.status = s, !.created_at = c] :
        i \in {"Widget", "Gadget"},
        a \in {ToDecimal(x).val : x \in {Fin(FALSE, 0, 4), Fin(FALSE, 99, 990)}},
        s \in {OrderStatusNew, OrderStatusFinished},
        c \in {ToTimestamp(TimeNow(t, LocalZone)) : t \in Instants}}

\* the tables that agree with rows on the ids and on each id's user_id
RECURSIVE AgreeingTables(_)
AgreeingTables(rows) ==
    IF rows = {} THEN {{}}
    ELSE LET r == CHOOSE x \in rows : TRUE
         IN  {{v} \union rest : v \in FieldVariants(r),
                                rest \in AgreeingTables(rows \ {r})}

\* checkOrderOwnerHandler.Handle for req over the table rows, the driver
\* answering as outcome
CheckOrderOwnerOver(rows, req, outcome) ==
    LET invalid == checkOrderOwnerValidate(req)
        ans     == PostgresStoreGet(rows, req.OrderId, outcome)
    IN  IF invalid # Nil THEN Return(Nil, invalid)
        ELSE checkOrderOwnerReturn(req, ans.order, ans.err)

\* req has the same outcome over rows as over every table made of done and
\* of one row of FieldVariants for each row of rest
RECURSIVE SameOutcomeOverAll(_, _, _)
SameOutcomeOverAll(done, rest, req) ==
    IF rest = {}
    THEN \A f \in {"none", "fail"} :
            CheckOrderOwnerOver(done, req, f) = CheckOrderOwnerOver(db, req, f)
    ELSE LET r == CHOOSE x \in rest : TRUE
         IN  \A v \in FieldVariants(r) :
                SameOutcomeOverAll(done \union {v}, rest \ {r}, req)

C29_OwnerCheckSeesOnlyOwner ==
    (last.op = "CheckOrderOwner")
    => /\ impl = "postgres"
          => /\ \E f \in {"none", "fail"} :
                   CheckOrderOwnerOver(db, last.req, f)
                      = [resp |-> last.resp, err |-> last.err, panicked |-> last.panicked]
             /\ SameOutcomeOverAll({}, db, last.req)
       /\ (last.err = Nil /\ ~last.panicked)
          => last.resp = Some(CheckOrderOwnerResponse)

\* a request by another user than the owner, over a table of two orders
C29_Witness ==
    /\ impl = "postgres"
    /\ last.op = "CheckOrderOwner"
    /\ Cardinality(db) = 2
    /\ \E r \in db : r.id = last.req.OrderId /\ r.user_id # last.req.UserId
    /\ last.err # Nil
    /\ CodeOf(last) = CodePermissionDenied
    /\ AgreeingTables(db) # {db}

====
